---- MODULE Spec2Model ----
(***************************************************************************)
(* Model of ts-remove-unused: the usage classifier (getUnusedExports,      *)
(* getAncestorFiles), the text edit generator (getTextChanges,             *)
(* getUpdatedExportDeclaration) and the fixed-point removal driver         *)
(* (removeUnusedExport).                                                   *)
(*                                                                         *)
(* A project is a file store mapping each path to a list of top-level      *)
(* statements.  Text positions are kept: every statement has a leading     *)
(* trivia width and a token width, so that spans are computed the way the  *)
(* code computes them (getFullStart/getFullWidth, getStart/getWidth).      *)
(***************************************************************************)
EXTENDS Integers, Sequences, FiniteSets, TLC

\* ------------------------------------------------------------------ bounds
MaxSpecs == 3

\* ------------------------------------------------------------ the project
Files == {"a", "b", "c"}
NoFile == "none"
Unresolvable == "missing"
NameSeq == <<"x", "y", "z", "w", "v">>

Min(m, n) == IF m < n THEN m ELSE n

\* One top-level statement.  kind:
\*   "decl"    variable statement / function / class / interface / type alias
\*   "assign"  ts.ExportAssignment: `export default e` (eq = FALSE) or `export = e`
\*   "clause"  ts.ExportDeclaration with an export clause: `export { specs } [from m]`
\*   "star"    ts.ExportDeclaration without export clause: `export * from m`
\*   "import"  `import { name } from m` together with a use of the name
\* skip is the leading IGNORE_COMMENT of the node.
Stmt(kind, dk, name, exp, def, anon, skip, eq, specs, from) ==
  [kind |-> kind, dk |-> dk, name |-> name, exp |-> exp, def |-> def, anon |-> anon,
   skip |-> skip, eq |-> eq, specs |-> specs, from |-> from]

Decl(dk, name, skip) == Stmt("decl", dk, name, TRUE, FALSE, FALSE, skip, FALSE, <<>>, NoFile)
Local(dk, name) == Stmt("decl", dk, name, FALSE, FALSE, FALSE, FALSE, FALSE, <<>>, NoFile)
DefaultDecl(dk, name, anon) ==
  Stmt("decl", dk, name, TRUE, TRUE, anon, FALSE, FALSE, <<>>, NoFile)
ExportAssignment(name, eq) ==
  Stmt("assign", "none", name, FALSE, FALSE, FALSE, FALSE, eq, <<>>, NoFile)
Specifier(name, skip) == [name |-> name, skip |-> skip]
ExportClause(specs, from) ==
  Stmt("clause", "none", "none", FALSE, FALSE, FALSE, FALSE, FALSE, specs, from)
ExportStar(from) == Stmt("star", "none", "none", FALSE, FALSE, FALSE, FALSE, FALSE, <<>>, from)
Import(name, from) == Stmt("import", "none", name, FALSE, FALSE, FALSE, FALSE, FALSE, <<>>, from)

Plain(names) == [i \in 1..Len(names) |-> Specifier(names[i], FALSE)]

\* A node of the syntax tree: statement i of file f, or (k > 0) the k-th
\* export specifier of its export clause.
Node(f, i, k) == [file |-> f, i |-> i, k |-> k]

StmtOf(st, n) == st[n.file].stmts[n.i]
\* The name a node exports or imports.
NameOf(st, n) ==
  LET s == StmtOf(st, n) IN
  IF n.k > 0 THEN s.specs[n.k].name
  ELSE IF s.kind = "assign" \/ (s.kind = "decl" /\ s.def) THEN "default"
  ELSE s.name

ModuleOf(st, n) == StmtOf(st, n).from

\* ------------------------------------------- the language service's index
\* The nodes that carry a symbol other files can link to or that link to
\* another file: exported declarations, `export default e`, export
\* specifiers and imports.
IsSymbolStmt(s) ==
  \/ s.kind = "decl" /\ s.exp
  \/ s.kind = "assign" /\ ~s.eq
  \/ s.kind = "import"

NodesOfFile(st, f) ==
  IF ~st[f].exists THEN {}
  ELSE UNION { IF st[f].stmts[i].kind = "clause"
               THEN { Node(f, i, k) : k \in 1..Len(st[f].stmts[i].specs) }
               ELSE IF IsSymbolStmt(st[f].stmts[i]) THEN { Node(f, i, 0) } ELSE {}
             : i \in 1..Len(st[f].stmts) }

Symbols(st) == UNION { NodesOfFile(st, f) : f \in Files }

IsExporter(st, n) == StmtOf(st, n).kind # "import"

\* An alias: a node that names a symbol of another module.
IsAlias(st, n) ==
  \/ StmtOf(st, n).kind = "import"
  \/ n.k > 0 /\ ModuleOf(st, n) # NoFile

\* The nodes of file g that export `name`, looking through `export * from`.
RECURSIVE ExportersOf(_, _, _, _)
ExportersOf(st, g, name, fuel) ==
  IF g \notin Files \/ ~st[g].exists THEN {}
  ELSE { n \in NodesOfFile(st, g) : IsExporter(st, n) /\ NameOf(st, n) = name }
       \cup (IF fuel = 0 \/ name = "default" THEN {}
             ELSE UNION { IF st[g].stmts[i].kind = "star"
                          THEN ExportersOf(st, st[g].stmts[i].from, name, fuel - 1)
                          ELSE {}
                        : i \in 1..Len(st[g].stmts) })

LinkTargets(st, n) ==
  IF IsAlias(st, n)
  THEN ExportersOf(st, ModuleOf(st, n), NameOf(st, n), Cardinality(Files))
  ELSE {}

\* The alias links of the project: <<alias, node it names>>.
Links(st) ==
  UNION { { <<m, p>> : p \in LinkTargets(st, m) } : m \in Symbols(st) }

\* All occurrences of one symbol: the closure of the alias links, in both
\* directions, from the queried node.
RECURSIVE Closure(_, _)
Closure(links, S) ==
  LET T == S \cup { l[2] : l \in { q \in links : q[1] \in S } }
             \cup { l[1] : l \in { q \in links : q[2] \in S } }
  IN IF T = S THEN S ELSE Closure(links, T)

Family(st, S) == Closure(Links(st), S)

\* A local declaration `name` of file f that carries no export modifier.
LocalDeclOf(st, f, name) ==
  { Node(f, i, 0) : i \in { j \in 1..Len(st[f].stmts) :
      /\ st[f].stmts[j].kind = "decl"
      /\ ~st[f].stmts[j].exp
      /\ st[f].stmts[j].name = name } }

\* ts.ReferencedSymbol: the file of the definition, the first recorded
\* reference and the number of references.  `export { x }` without a
\* from-clause belongs to the local declaration of x, which is then the
\* definition and the first reference.
ReferencedSymbol(st, p) ==
  LET loc == IF p.k > 0 /\ ModuleOf(st, p) = NoFile
             THEN LocalDeclOf(st, p.file, NameOf(st, p)) ELSE {}
  IN IF loc # {}
     THEN [file |-> p.file, first |-> CHOOSE d \in loc : TRUE, count |-> 2]
     ELSE [file |-> p.file, first |-> p, count |-> 1]

Undefined == [kind |-> "undefined", refs |-> {}]

\* findReferences: the position queried is the declared identifier, the
\* specifier, or the `default` keyword of an export assignment; `export = e`
\* has no `default` keyword and yields undefined.
ReferencesIn(st, links, n) ==
  IF StmtOf(st, n).kind = "assign" /\ StmtOf(st, n).eq
  THEN Undefined
  ELSE [kind |-> "refs",
        refs |-> { ReferencedSymbol(st, p) : p \in Closure(links, {n}) }]

findReferences(st, n) == ReferencesIn(st, Links(st), n)

\* ------------------------------------------------ re-export chain resolver
getReexportInFile(st, f) ==
  { n \in NodesOfFile(st, f) : n.k > 0 /\ ModuleOf(st, n) # NoFile }

getFileFromModuleSpecifierText(st, specifier, fileName) ==
  IF specifier \in Files /\ st[specifier].exists THEN specifier ELSE NoFile

Null == [kind |-> "null", files |-> {}]
Diverges == [kind |-> "diverges", files |-> {}]

\* One iteration of the while loop per call.  `seen` holds the
\* (specifier, currentFile) pairs already walked: the loop's state is that
\* pair alone, so a repeated pair is a walk that never ends.
RECURSIVE AncestorWalk(_, _, _, _, _, _)
AncestorWalk(st, references, specifier, currentFile, result, seen) ==
  LET origin == getFileFromModuleSpecifierText(st, specifier, currentFile)
      entries == { v \in references : v.file = origin }
  IN IF <<specifier, currentFile>> \in seen THEN Diverges
     ELSE IF origin = NoFile THEN Null
     ELSE IF entries = {} THEN Null
     ELSE LET referencedSymbol == CHOOSE v \in entries : TRUE
              reexportNode == { r \in getReexportInFile(st, origin) :
                                  r = referencedSymbol.first }
          IN IF reexportNode # {}
             THEN AncestorWalk(st, references,
                               ModuleOf(st, CHOOSE r \in reexportNode : TRUE),
                               origin, result \cup {origin},
                               seen \cup {<<specifier, currentFile>>})
             ELSE [kind |-> "set", files |-> result \cup {origin}]

\* The walk without result.add(origin).
getAncestorFiles_NothingAdded(st, node, references, fileName) ==
  IF ModuleOf(st, node) = NoFile THEN Null
  ELSE LET r == AncestorWalk(st, references, ModuleOf(st, node), fileName, {}, {})
       IN IF r.kind = "set" THEN [kind |-> "set", files |-> {}] ELSE r

getAncestorFiles(st, node, references, fileName) ==
  IF ModuleOf(st, node) = NoFile THEN Null
  ELSE AncestorWalk(st, references, ModuleOf(st, node), fileName, {}, {})

\* ------------------------------------------------------ usage classifier
isTarget(s, k) ==
  \/ k > 0
  \/ k = 0 /\ s.kind = "assign"
  \/ k = 0 /\ s.kind = "decl" /\ s.exp

\* The candidates of a file in document order, skip-annotated ones included.
RECURSIVE TargetsFrom(_, _, _)
TargetsFrom(st, f, i) ==
  IF i > Len(st[f].stmts) THEN <<>>
  ELSE LET s == st[f].stmts[i]
           here == IF s.kind = "clause"
                   THEN [k \in 1..Len(s.specs) |-> Node(f, i, k)]
                   ELSE IF isTarget(s, 0) THEN <<Node(f, i, 0)>> ELSE <<>>
       IN here \o TargetsFrom(st, f, i + 1)

Targets(st, f) == TargetsFrom(st, f, 1)

HasSkipComment(st, n) ==
  IF n.k > 0 THEN StmtOf(st, n).specs[n.k].skip ELSE StmtOf(st, n).skip

RECURSIVE SumCounts(_)
SumCounts(S) ==
  IF S = {} THEN 0
  ELSE LET v == CHOOSE u \in S : TRUE IN v.count + SumCounts(S \ {v})

\* The ancestry filter applied to the wrong side: only references inside the
\* ancestry are counted.
ExternalCount_InsideAncestry(refs, fileName, ancestors) ==
  SumCounts({ v \in refs : v.file # fileName /\ v.file \in ancestors })

\* references.filter(definition outside fileName and ancestors)
\*           .flatMap(v => v.references).length
ExternalCount(refs, fileName, ancestors) ==
  SumCounts({ v \in refs : v.file # fileName /\ v.file \notin ancestors })

\* An unresolved ancestry taken for an empty ancestry set.
ReexportVerdict_NullAsEmpty(refs, fileName, ancestors) ==
  IF ancestors.kind = "diverges" THEN "diverges"
  ELSE IF ExternalCount(refs, fileName, ancestors.files) > 0 THEN "used" ELSE "unused"

\* reexport syntax: the specifier is used when its ancestry is not resolved
\* or a reference lies outside its file and its ancestry.
ReexportVerdict(refs, fileName, ancestors) ==
  IF ancestors.kind = "diverges" THEN "diverges"
  ELSE IF ancestors.kind = "null" THEN "unresolved"
  ELSE IF ExternalCount(refs, fileName, ancestors.files) > 0 THEN "used" ELSE "unused"

\* The visitor without the IGNORE_COMMENT test.
VerdictOf_NoSkip(st, n, references) ==
  IF references.kind = "undefined" THEN "noReferences"
  ELSE IF n.k > 0 /\ ModuleOf(st, n) # NoFile
  THEN ReexportVerdict(references.refs, n.file,
                       getAncestorFiles(st, n, references.refs, n.file))
  ELSE IF ExternalCount(references.refs, n.file, {}) > 0 THEN "used" ELSE "unused"

\* What the visitor of getUnusedExports does with one candidate whose
\* references are `references`.
VerdictOf(st, n, references) ==
  IF HasSkipComment(st, n) THEN "skipped"
  ELSE IF references.kind = "undefined" THEN "noReferences"
  ELSE IF n.k > 0 /\ ModuleOf(st, n) # NoFile
  THEN ReexportVerdict(references.refs, n.file,
                       getAncestorFiles(st, n, references.refs, n.file))
  ELSE IF ExternalCount(references.refs, n.file, {}) > 0 THEN "used" ELSE "unused"

Verdict(st, n) == VerdictOf(st, n, findReferences(st, n))

HasWildcard(st, f) ==
  \E i \in 1..Len(st[f].stmts) : st[f].stmts[i].kind = "star"

\* nodes.push(node) for the candidates found unused, in document order.
RECURSIVE Pushed(_, _, _)
Pushed(targets, verdicts, j) ==
  IF j > Len(targets) THEN <<>>
  ELSE (IF verdicts[j] = "unused" THEN <<targets[j]>> ELSE <<>>)
       \o Pushed(targets, verdicts, j + 1)

\* The visitor without its special case for `export * from`.
Classified_IgnoresWildcard(st, f, targets, verdicts) ==
  [nodes |-> Pushed(targets, verdicts, 1),
   isUsed |-> \E j \in 1..Len(targets) :
                 verdicts[j] \in {"skipped", "unresolved", "used"},
   diverges |-> \E j \in 1..Len(targets) : verdicts[j] = "diverges"]

\* nodes: the unused candidates in document order; isUsed: a wildcard
\* re-export, a skipped candidate, an unresolved ancestry or a used candidate.
Classified(st, f, targets, verdicts) ==
  [nodes |-> Pushed(targets, verdicts, 1),
   isUsed |-> \/ HasWildcard(st, f)
              \/ \E j \in 1..Len(targets) :
                    verdicts[j] \in {"skipped", "unresolved", "used"},
   diverges |-> \E j \in 1..Len(targets) : verdicts[j] = "diverges"]

VisitWith(st, f, targets, links) ==
  Classified(st, f, targets,
             [j \in 1..Len(targets) |->
                VerdictOf(st, targets[j], ReferencesIn(st, links, targets[j]))])

VisitAll(st, f, targets) == VisitWith(st, f, targets, Links(st))

getUnusedExports(st, f) == VisitAll(st, f, Targets(st, f))

\* ---------------------------------------------------------- text layout
\* Widths in tokens.  The leading trivia of a statement is the separator
\* before it plus its leading comment, if any.
LeadWidth(s) == 1 + (IF s.kind \in {"decl", "assign"} /\ s.skip THEN 1 ELSE 0)
ModifiersWidth(s) == (IF s.exp THEN 1 ELSE 0) + (IF s.def THEN 1 ELSE 0)
SpecWidth(sp) == 1 + (IF sp.skip THEN 1 ELSE 0)

RECURSIVE SpecsWidth(_, _)
SpecsWidth(specs, k) ==
  IF k = 0 THEN 0 ELSE SpecWidth(specs[k]) + SpecsWidth(specs, k - 1)

\* node.getWidth()
Width(s) ==
  CASE s.kind = "decl" -> ModifiersWidth(s) + (IF s.anon THEN 2 ELSE 3)
    [] s.kind = "assign" -> 3
    [] s.kind = "clause" ->
         3 + SpecsWidth(s.specs, Len(s.specs)) + (IF s.from = NoFile THEN 0 ELSE 2)
    [] s.kind = "star" -> 4
    [] OTHER -> 4

\* node.getFullWidth()
FullWidth(s) == LeadWidth(s) + Width(s)

\* node.getFullStart() of statement i
RECURSIVE FullStart(_, _)
FullStart(stmts, i) ==
  IF i <= 1 THEN 0 ELSE FullStart(stmts, i - 1) + FullWidth(stmts[i - 1])

\* node.getStart() of statement i
Start(stmts, i) == FullStart(stmts, i) + LeadWidth(stmts[i])

\* node.getStart() of the k-th specifier of export clause i: after `export {`,
\* the specifiers before it and its own leading comment.
SpecStart(stmts, i, k) ==
  Start(stmts, i) + 2 + SpecsWidth(stmts[i].specs, k - 1)
    + (SpecWidth(stmts[i].specs[k]) - 1)

\* ------------------------------------------------------ text edit generator
\* The declaration printed again without its from-clause.
getUpdatedExportDeclaration_NoFrom(exportDeclaration, removeTarget) ==
  LET Keep(sp) == sp.name # removeTarget.name
  IN ExportClause(SelectSeq(exportDeclaration.specs, Keep), NoFile)

\* The export declaration printed again without the specifiers whose text
\* equals the text of removeTarget; the from-clause and the order of the
\* other specifiers are those of the declaration.
getUpdatedExportDeclaration(exportDeclaration, removeTarget) ==
  LET Keep(sp) == sp.name # removeTarget.name
  IN ExportClause(SelectSeq(exportDeclaration.specs, Keep), exportDeclaration.from)

TextChange(start, length, newText) ==
  [start |-> start, length |-> length, newText |-> newText]

IsRegeneration(st, n) == n.k > 0 /\ Len(StmtOf(st, n).specs) > 1

\* The text change getTextChanges pushes for one unused node.
ChangeOf(st, n) ==
  LET stmts == st[n.file].stmts
      s == stmts[n.i]
  IN IF n.k > 0
     THEN IF Len(s.specs) = 1
          THEN TextChange(FullStart(stmts, n.i), FullWidth(s), <<>>)
          ELSE TextChange(Start(stmts, n.i), Width(s),
                          <<getUpdatedExportDeclaration(s, s.specs[n.k])>>)
     ELSE IF s.kind = "assign"
          THEN TextChange(FullStart(stmts, n.i), FullWidth(s), <<>>)
     ELSE IF s.dk \in {"function", "class"} /\ s.anon
          THEN TextChange(FullStart(stmts, n.i), FullWidth(s), <<>>)
     ELSE TextChange(Start(stmts, n.i), ModifiersWidth(s), <<>>)

\* The position editTracker.removeExport is given for one unused node.
RemovalOf(st, n) ==
  LET stmts == st[n.file].stmts
  IN [type |-> "removeExport", file |-> n.file,
      position |-> IF IsRegeneration(st, n) THEN SpecStart(stmts, n.i, n.k)
                   ELSE Start(stmts, n.i)]

\* The loop without `if (aborted) break`.
Handled_NoBreak(st, nodes, j) == nodes

\* for (const node of nodes) { if (aborted) break; ... }: the prefix of
\* `nodes` up to and including the first specifier of a multi-item clause.
RECURSIVE Handled(_, _, _)
Handled(st, nodes, j) ==
  IF j > Len(nodes) THEN <<>>
  ELSE IF IsRegeneration(st, nodes[j]) THEN <<nodes[j]>>
  ELSE <<nodes[j]>> \o Handled(st, nodes, j + 1)

\* getTextChanges without `aborted = true`.
Batch_NeverAborted(st, handled, unused) ==
  [changes |-> [j \in 1..Len(handled) |-> ChangeOf(st, handled[j])],
   removals |-> [j \in 1..Len(handled) |-> RemovalOf(st, handled[j])],
   handled |-> handled,
   done |-> TRUE,
   isUsed |-> unused.isUsed,
   diverges |-> unused.diverges]

Batch(st, handled, unused) ==
  [changes |-> [j \in 1..Len(handled) |-> ChangeOf(st, handled[j])],
   removals |-> [j \in 1..Len(handled) |-> RemovalOf(st, handled[j])],
   handled |-> handled,
   done |-> ~(\E j \in 1..Len(handled) : IsRegeneration(st, handled[j])),
   isUsed |-> unused.isUsed,
   diverges |-> unused.diverges]

TextChangesOf(st, unused) == Batch(st, Handled(st, unused.nodes, 1), unused)

getTextChanges(st, f) == TextChangesOf(st, getUnusedExports(st, f))

\* ---------------------------------------------------------- collaborators
\* applyTextChanges: every statement a change lies in is spliced; a change
\* that covers the full width of the statement removes it, a change with a
\* replacement text puts the replacement after the kept trivia, and a change
\* that cuts `length` leading tokens drops that many modifiers.
Splice(s, c, fullStart) ==
  IF c.start = fullStart /\ c.length = FullWidth(s) THEN <<>>
  ELSE IF c.newText # <<>> THEN c.newText
  ELSE <<[s EXCEPT !.exp = s.exp /\ c.length < 1,
                   !.def = s.def /\ c.length < ModifiersWidth(s)]>>

RECURSIVE ApplyFrom(_, _, _)
ApplyFrom(content, changes, i) ==
  IF i > Len(content) THEN <<>>
  ELSE LET fs == FullStart(content, i)
           hits == { j \in 1..Len(changes) :
                       /\ changes[j].start >= fs
                       /\ changes[j].start + changes[j].length
                            <= fs + FullWidth(content[i]) }
           here == IF hits = {} THEN <<content[i]>>
                   ELSE Splice(content[i], changes[CHOOSE j \in hits : TRUE], fs)
       IN here \o ApplyFrom(content, changes, i + 1)

applyTextChanges(content, changes) == ApplyFrom(content, changes, 1)

\* applyCodeFix(fixIdDelete): one round of "delete unused declaration":
\* local declarations no export clause or export assignment of the file
\* names are deleted.
LocallyUsed(content, name) ==
  \E i \in 1..Len(content) :
     \/ content[i].kind = "assign" /\ content[i].name = name
     \/ /\ content[i].kind = "clause"
        /\ content[i].from = NoFile
        /\ \E k \in 1..Len(content[i].specs) : content[i].specs[k].name = name

applyCodeFixDelete(content) ==
  LET Keep(s) == ~(s.kind = "decl" /\ ~s.exp /\ ~LocallyUsed(content, s.name))
  IN SelectSeq(content, Keep)

\* applyCodeFix(fixIdDeleteImports): every import of the model is in use.
applyCodeFixDeleteImports(content) == content

\* ------------------------------------------------------------------ state
VARIABLES
  store,             \* FileService: path -> [exists, stmts]
  targetFile,        \* the list of target files of removeUnusedExport
  deleteUnusedFile,  \* option
  enableCodeFix,     \* option
  pc,                \* position in removeUnusedExport
  idx,               \* number of target files already taken by the for loop
  content,           \* local `content`
  isUsed,            \* local `isUsed`
  result,            \* the result of the last getTextChanges call
  tracker,           \* the events the EditTracker received in this run
  edits,             \* text changes and deletions applied in this run
  previous           \* the run before this one: "none", "edited" or "clean"

vars == <<store, targetFile, deleteUnusedFile, enableCodeFix, pc, idx, content,
          isUsed, result, tracker, edits, previous>>

File(stmts) == [exists |-> TRUE, stmts |-> stmts]
Deleted == [exists |-> FALSE, stmts |-> <<>>]

NoResult == [changes |-> <<>>, removals |-> <<>>, handled |-> <<>>, done |-> TRUE,
             isUsed |-> FALSE, diverges |-> FALSE]

Locals(n) == [i \in 1..n |-> Local("var", NameSeq[i])]
Names(n) == SubSeq(NameSeq, 1, n)

\* The contents of the definer a, the barrel b and the consumer c.
AContents ==
  { <<Decl("var", "x", FALSE)>>,
    <<Decl("function", "x", FALSE), Decl("class", "y", FALSE)>>,
    <<Decl("var", "x", TRUE), Decl("interface", "y", FALSE)>>,
    <<DefaultDecl("function", "f", TRUE)>>,
    <<DefaultDecl("class", "f", FALSE), Decl("type", "y", FALSE)>>,
    <<Local("var", "x"), ExportAssignment("x", FALSE)>>,
    <<Local("var", "x"), ExportAssignment("x", TRUE)>>,
    <<Decl("var", "x", FALSE), ExportStar("b")>>,
    <<ExportClause(Plain(<<"x">>), "b")>>,
    <<ExportClause(Plain(<<"x">>), Unresolvable)>>,
    Locals(2) \o <<ExportClause(<<Specifier("x", TRUE), Specifier("y", FALSE)>>, NoFile)>> }
  \cup { Locals(n) \o <<ExportClause(Plain(Names(n)), NoFile)>> :
           n \in 1..Min(MaxSpecs, Len(NameSeq)) }
  \cup { <<Decl("var", "p", FALSE)>> \o Locals(n)
           \o <<ExportClause(Plain(Names(n)), NoFile), Decl("function", "q", FALSE)>> :
           n \in 2..Min(MaxSpecs, Len(NameSeq)) }

BContents ==
  { <<>>,
    <<ExportClause(Plain(<<"x">>), "a")>>,
    <<ExportClause(Plain(<<"x", "y">>), "a")>>,
    <<ExportClause(Plain(<<"x">>), "a"), Decl("var", "w", FALSE)>>,
    <<ExportClause(<<Specifier("x", TRUE)>>, "a")>>,
    <<Import("x", "a")>>,
    <<Import("default", "a"), Decl("function", "w", FALSE)>>,
    <<ExportStar("a")>>,
    <<ExportClause(Plain(<<"x">>), Unresolvable)>> }

CContents ==
  { <<>>,
    <<Import("x", "b")>>,
    <<Import("x", "a")>>,
    <<Import("x", "a"), Import("z", "a")>>,
    <<ExportClause(Plain(<<"x">>), "b")>> }

TargetLists == { <<"a", "b">>, <<"b", "a">>, <<"c", "b", "a">> }

Init ==
  /\ \E ca \in AContents, cb \in BContents, cc \in CContents :
       store = [f \in Files |->
                  IF f = "a" THEN File(ca) ELSE IF f = "b" THEN File(cb) ELSE File(cc)]
  /\ targetFile \in TargetLists
  /\ deleteUnusedFile \in BOOLEAN
  /\ enableCodeFix \in BOOLEAN
  /\ pc = "loop"
  /\ idx = 0
  /\ content = <<>>
  /\ isUsed = FALSE
  /\ result = NoResult
  /\ tracker = <<>>
  /\ edits = 0
  /\ previous = "none"

file == targetFile[idx + 1]

Event(type, f) == [type |-> type, file |-> f, position |-> 0]

\* ---------------------------------------------------- removeUnusedExport
\* for (const file of targetFile): a file the program does not hold is skipped.
SkipFile ==
  /\ pc = "loop"
  /\ idx < Len(targetFile)
  /\ ~store[file].exists
  /\ idx' = idx + 1
  /\ UNCHANGED <<store, targetFile, deleteUnusedFile, enableCodeFix, pc, content,
                 isUsed, result, tracker, edits, previous>>

\* editTracker.start(file, ...); content = fileService.get(file); isUsed = false
BeginFile ==
  /\ pc = "loop"
  /\ idx < Len(targetFile)
  /\ store[file].exists
  /\ tracker' = Append(tracker, Event("start", file))
  /\ content' = store[file].stmts
  /\ isUsed' = FALSE
  /\ pc' = "scanning"
  /\ UNCHANGED <<store, targetFile, deleteUnusedFile, enableCodeFix, idx, result,
                 edits, previous>>

\* result = getTextChanges(...): the scanning pass.  It records the removals
\* with the tracker; it never returns when an ancestry walk does not end.
ScanResult(r) ==
  IF r.diverges
  THEN /\ pc' = "hung"
       /\ UNCHANGED <<result, tracker>>
  ELSE /\ result' = r
       /\ tracker' = tracker \o r.removals
       /\ pc' = "editing"

Scan ==
  /\ pc = "scanning"
  /\ ScanResult(getTextChanges(store, file))
  /\ UNCHANGED <<store, targetFile, deleteUnusedFile, enableCodeFix, idx, content,
                 isUsed, edits, previous>>

\* isUsed = result.isUsed; content = applyTextChanges(content, result.changes);
\* fileService.set(file, content); if (result.done) break
Edit ==
  /\ pc = "editing"
  /\ isUsed' = result.isUsed
  /\ content' = applyTextChanges(content, result.changes)
  /\ store' = [store EXCEPT ![file] = File(content')]
  /\ edits' = edits + Len(result.changes)
  /\ pc' = IF result.done THEN "stabilized" ELSE "scanning"
  /\ UNCHANGED <<targetFile, deleteUnusedFile, enableCodeFix, idx, result, tracker,
                 previous>>

\* if (!isUsed && deleteUnusedFile) { delete; editTracker.delete; continue }
DeleteFile ==
  /\ pc = "stabilized"
  /\ ~isUsed /\ deleteUnusedFile
  /\ store' = [store EXCEPT ![file] = Deleted]
  /\ tracker' = Append(tracker, Event("delete", file))
  /\ edits' = edits + 1
  /\ idx' = idx + 1
  /\ pc' = "loop"
  /\ UNCHANGED <<targetFile, deleteUnusedFile, enableCodeFix, content, isUsed,
                 result, previous>>

\* editTracker.end(file)
EndSession ==
  /\ pc = "stabilized"
  /\ ~(~isUsed /\ deleteUnusedFile)
  /\ tracker' = Append(tracker, Event("end", file))
  /\ pc' = IF enableCodeFix THEN "codefix" ELSE "save"
  /\ UNCHANGED <<store, targetFile, deleteUnusedFile, enableCodeFix, idx, content,
                 isUsed, result, edits, previous>>

\* while (true) { set(file, content); result = applyCodeFix(fixIdDelete);
\*                if (result === content) break; content = result }
CodeFix ==
  /\ pc = "codefix"
  /\ store' = [store EXCEPT ![file] = File(content)]
  /\ LET fixed == applyCodeFixDelete(content) IN
     IF fixed = content
     THEN pc' = "imports" /\ UNCHANGED content
     ELSE pc' = "codefix" /\ content' = fixed
  /\ UNCHANGED <<targetFile, deleteUnusedFile, enableCodeFix, idx, isUsed, result,
                 tracker, edits, previous>>

\* set(file, content); content = applyCodeFix(fixIdDeleteImports)
FixImports ==
  /\ pc = "imports"
  /\ store' = [store EXCEPT ![file] = File(content)]
  /\ content' = applyCodeFixDeleteImports(content)
  /\ pc' = "save"
  /\ UNCHANGED <<targetFile, deleteUnusedFile, enableCodeFix, idx, isUsed, result,
                 tracker, edits, previous>>

\* fileService.set(file, content), and on to the next target file
Save ==
  /\ pc = "save"
  /\ store' = [store EXCEPT ![file] = File(content)]
  /\ idx' = idx + 1
  /\ pc' = "loop"
  /\ UNCHANGED <<targetFile, deleteUnusedFile, enableCodeFix, content, isUsed,
                 result, tracker, edits, previous>>

\* removeUnusedExport returns.
Finish ==
  /\ pc = "loop"
  /\ idx = Len(targetFile)
  /\ pc' = "done"
  /\ UNCHANGED <<store, targetFile, deleteUnusedFile, enableCodeFix, idx, content,
                 isUsed, result, tracker, edits, previous>>

\* The caller runs removeUnusedExport again on the same list and options.
Rerun ==
  /\ pc = "done"
  /\ pc' = "loop"
  /\ idx' = 0
  /\ tracker' = <<>>
  /\ edits' = 0
  /\ previous' = IF edits = 0 THEN "clean" ELSE "edited"
  /\ result' = NoResult
  /\ content' = <<>>
  /\ isUsed' = FALSE
  /\ UNCHANGED <<store, targetFile, deleteUnusedFile, enableCodeFix>>

Next ==
  \/ SkipFile
  \/ BeginFile
  \/ Scan
  \/ Edit
  \/ DeleteFile
  \/ EndSession
  \/ CodeFix
  \/ FixImports
  \/ Save
  \/ Finish
  \/ Rerun

Spec == Init /\ [][Next]_vars

\* Single-threaded and synchronous: the driver always takes its next step,
\* and the caller keeps re-running it.
FairSpec == Spec /\ WF_vars(Next)

TypeOK ==
  /\ pc \in {"loop", "scanning", "editing", "stabilized", "codefix", "imports",
             "save", "done", "hung"}
  /\ idx \in 0..Len(targetFile)
  /\ pc \notin {"loop", "done"} => idx < Len(targetFile)

\* ------------------------------------------------------------- soundness
\* The re-export ancestry set of a forwarding specifier, when it resolves.
AncestrySet(st, n, references) ==
  IF n.k > 0 /\ ModuleOf(st, n) # NoFile
  THEN getAncestorFiles(st, n, references.refs, n.file).files
  ELSE {}

\* n has a reference whose defining file is neither n's file nor a file of
\* n's re-export ancestry set.
OutsideReference(st, n, references) ==
  LET ancestry == AncestrySet(st, n, references)
  IN \E v \in references.refs : v.file # n.file /\ v.file \notin ancestry

HasOutsideReference(st, n) == OutsideReference(st, n, findReferences(st, n))

Range(s) == { s[j] : j \in 1..Len(s) }

UnusedNodes(st, f) ==
  IF st[f].exists THEN Range(getUnusedExports(st, f).nodes) ELSE {}

HandledNodes == Range(result.handled)

\* Every value the store takes is the store of a state at one of these
\* positions: the store changes only in steps that lead to them or that
\* write the content again.
FreshStore == pc \in {"loop", "scanning", "stabilized"}

WildcardFiles(st) == { f \in Files : st[f].exists /\ HasWildcard(st, f) }

\* C3 (wildcard safety): a file with `export * from` stays in the store with
\* its wildcard whatever step is taken, deletion requested or not, and the
\* used flag of every scanning pass over it is true.
C3_WildcardSafety ==
  /\ [](pc = "editing" /\ HasWildcard(store, file) => result.isUsed)
  /\ [](pc = "stabilized" /\ HasWildcard(store, file) => isUsed)
  /\ [][\A f \in WildcardFiles(store) : f \in WildcardFiles(store')]_vars

\* The loop of a wildcard file ends with deletion requested, after a pass
\* that removed every other export of the file.
C3_Witness ==
  /\ pc = "stabilized"
  /\ deleteUnusedFile
  /\ HasWildcard(store, file)
  /\ result.changes # <<>>
  /\ Targets(store, file) = <<>>

\* ------------------------------------------------------ annotation respect
SkipItem(st, n) == IF n.k > 0 THEN StmtOf(st, n).specs[n.k] ELSE StmtOf(st, n)

\* The skip-annotated candidates of a file, as they stand in its text.
SkipCandidates(st, f) ==
  IF st[f].exists
  THEN { SkipItem(st, n) : n \in { m \in Range(Targets(st, f)) : HasSkipComment(st, m) } }
  ELSE {}

\* C4 (annotation respect): a candidate with the skip marker is never in the
\* unused set and never given a text change, the scan of its file reports
\* the file used, and no step changes the candidate or deletes its file.
C4_AnnotationRespect ==
  /\ [](FreshStore =>
          \A f \in Files :
            /\ \A n \in UnusedNodes(store, f) : ~HasSkipComment(store, n)
            /\ SkipCandidates(store, f) # {} => getUnusedExports(store, f).isUsed)
  /\ [](pc = "editing" =>
          /\ \A n \in HandledNodes : ~HasSkipComment(store, n)
          /\ SkipCandidates(store, file) # {} => result.isUsed)
  /\ [](pc = "stabilized" /\ SkipCandidates(store, file) # {} => isUsed)
  /\ [][\A f \in Files : SkipCandidates(store', f) = SkipCandidates(store, f)]_vars

\* The loop of a file ends with deletion requested, after a pass that made
\* edits, and the file holds a skip-annotated candidate no other file
\* references.
C4_Witness ==
  /\ pc = "stabilized"
  /\ deleteUnusedFile
  /\ result.changes # <<>>
  /\ \E n \in Range(Targets(store, file)) :
       HasSkipComment(store, n) /\ ~HasOutsideReference(store, n)

\* ----------------------------------------------------- re-export correctness
\* File a defines x, file b forwards it from a, file c imports it from b.
DeclaredX(st) ==
  { n \in Range(Targets(st, "a")) :
      /\ n.k = 0
      /\ StmtOf(st, n).kind = "decl"
      /\ StmtOf(st, n).name = "x"
      /\ ~StmtOf(st, n).def
      /\ ~StmtOf(st, n).skip }

ForwardedX(st) ==
  { n \in Range(Targets(st, "b")) :
      /\ n.k > 0
      /\ ModuleOf(st, n) = "a"
      /\ NameOf(st, n) = "x"
      /\ ~HasSkipComment(st, n) }

ImportsX(st, f, from) ==
  /\ st[f].exists
  /\ \E i \in 1..Len(st[f].stmts) :
       /\ st[f].stmts[i].kind = "import"
       /\ st[f].stmts[i].name = "x"
       /\ st[f].stmts[i].from = from

\* The files that hold an occurrence of the symbol of node n.
FilesOf(st, n) == { p.file : p \in Family(st, {n}) }

\* C5 (re-export correctness): while c imports x from b, neither a's export
\* of x nor b's forwarding specifier is unused; with no occurrence of x
\* outside a and b, b's specifier is unused and a's export is not; a's export
\* is unused once no file but a holds an occurrence; and no step removes a's
\* export of x while b still forwards it.
C5_ReexportCorrectness ==
  /\ [](FreshStore =>
          \A ax \in DeclaredX(store) :
            /\ \A bx \in ForwardedX(store) :
                 /\ ImportsX(store, "c", "b") =>
                      /\ ax \notin UnusedNodes(store, "a")
                      /\ bx \notin UnusedNodes(store, "b")
                 /\ FilesOf(store, ax) \subseteq {"a", "b"} =>
                      /\ bx \in UnusedNodes(store, "b")
                      /\ ax \notin UnusedNodes(store, "a")
            /\ FilesOf(store, ax) = {"a"} => ax \in UnusedNodes(store, "a"))
  /\ [][(DeclaredX(store) # {} /\ ForwardedX(store) # {})
          => DeclaredX(store') # {}]_vars

\* One run in which c's import goes with c, then b's forwarding specifier is
\* removed, and now the pass over a removes the export of x.
C5_Witness ==
  /\ pc = "editing"
  /\ file = "a"
  /\ \E ax \in DeclaredX(store) : ax \in HandledNodes
  /\ \E j \in 1..Len(tracker) : tracker[j].type = "delete" /\ tracker[j].file = "c"
  /\ \E j \in 1..Len(tracker) :
       /\ tracker[j].type = "removeExport"
       /\ tracker[j].file = "b"
       /\ tracker[j].position = 1

\* ---------------------------------------------------- multi-specifier batch
\* The export clauses of file f in store st that still hold a specifier of s.
ClausesAfter(st, f, s) ==
  IF ~st[f].exists THEN {}
  ELSE { u \in Range(st[f].stmts) :
           /\ u.kind = "clause"
           /\ \E k \in 1..Len(s.specs), l \in 1..Len(u.specs) :
                u.specs[l].name = s.specs[k].name }

Without(s, k) ==
  ExportClause([j \in 1..(Len(s.specs) - 1) |->
                  IF j < k THEN s.specs[j] ELSE s.specs[j + 1]], s.from)

\* The multi-item export clauses of the current file a pass has reached, each
\* with the set of its unused specifiers.
ReachedClauses ==
  { i \in 1..Len(store[file].stmts) :
      /\ store[file].stmts[i].kind = "clause"
      /\ Len(store[file].stmts[i].specs) > 1
      /\ \E n \in HandledNodes : n.i = i }

UnusedSpecs(i) == { n.k : n \in { m \in UnusedNodes(store, file) : m.i = i } }

\* C6 as claimed: one pass turns `export { a, b, c }` with only b unused into
\* `export { a, c }`, and removes the whole statement when all are unused.
C6_OnePassRemovesAll ==
  [][pc = "editing" =>
       \A i \in ReachedClauses :
         LET s == store[file].stmts[i]
             U == UnusedSpecs(i)
         IN /\ Cardinality(U) = 1 =>
                 ClausesAfter(store', file, s) = { Without(s, CHOOSE k \in U : TRUE) }
            /\ U = 1..Len(s.specs) => ClausesAfter(store', file, s) = {}]_vars

\* C6 (multi-specifier batch, amended): one pass over `export { a, b, c }`
\* with only b unused yields `export { a, c }`, order and from-clause kept;
\* with all unused one pass removes the first specifier only and the loop
\* goes on, and when the loop of the file ends no export clause of the file
\* holds an unused specifier.
C6_MultiSpecifierBatch ==
  /\ [][pc = "editing" =>
          \A i \in ReachedClauses :
            LET s == store[file].stmts[i]
                U == UnusedSpecs(i)
            IN /\ Cardinality(U) = 1 =>
                    ClausesAfter(store', file, s) = { Without(s, CHOOSE k \in U : TRUE) }
               /\ U = 1..Len(s.specs) =>
                    /\ ClausesAfter(store', file, s) = { Without(s, 1) }
                    /\ pc' = "scanning"]_vars
  /\ [](pc = "stabilized" => \A n \in UnusedNodes(store, file) : n.k = 0)

\* The loop of a file ends after as many passes as its export clause had
\* specifiers, all unused, and the statement is gone.
C6_Witness ==
  LET S == FullStart(store[file].stmts, Len(store[file].stmts) + 1) + 1
      n == Len(tracker)
  IN /\ pc = "stabilized"
     /\ \A i \in 1..Len(store[file].stmts) : store[file].stmts[i].kind # "clause"
     /\ n >= 4
     /\ \A j \in (n - 2)..n : tracker[j].type = "removeExport" /\ tracker[j].file = file
     /\ tracker[n - 2].position = S + 2
     /\ tracker[n - 1].position = S + 2
     /\ tracker[n].position = S

\* ------------------------------------------------------------- idempotence
\* C7 as claimed: a run that follows a completed run over the same list
\* applies no text change and deletes no file.
C7_SecondRunNoEdits == (pc = "done" /\ previous # "none") => edits = 0

\* C7 (idempotence, amended): when the loop of a file has ended, one more
\* pass over the file yields no text change and no removal; and a run that
\* follows a run without edits makes no edit.
C7_Idempotence ==
  /\ pc = "stabilized" =>
       /\ getTextChanges(store, file).changes = <<>>
       /\ getTextChanges(store, file).removals = <<>>
  /\ previous = "clean" => edits = 0

\* A run without edits has completed, after an earlier run that stripped an
\* export; it follows a run without edits.
C7_Witness ==
  /\ pc = "done"
  /\ previous = "clean"
  /\ edits = 0
  /\ tracker # <<>>
  /\ \E f \in Files : store[f].exists /\ \E s \in Range(store[f].stmts) :
       s.kind = "decl" /\ ~s.exp /\ s.dk = "function"

\* ---------------------------------------------------------- conflict policy
Overlap(c, d) == c.start < d.start + d.length /\ d.start < c.start + c.length

After(n, r) == n.i > r.i \/ (n.i = r.i /\ n.k > r.k)

\* The unused candidate n of the current file is in the text of store st.
StillThere(st, n) ==
  IF n.k = 0 THEN StmtOf(store, n) \in Range(st[file].stmts)
  ELSE \E u \in Range(st[file].stmts) :
         /\ u.kind = "clause"
         /\ \E l \in 1..Len(u.specs) : u.specs[l] = StmtOf(store, n).specs[n.k]

\* C10 (conflict policy): the spans of a batch are pairwise disjoint; the
\* batch holds at most one regeneration of a multi-item clause and it is the
\* last change; the unused candidates the batch leaves out all come after it,
\* are still in the text after the batch is applied, and a further scanning
\* pass follows.
C10_ConflictPolicy ==
  /\ [](pc = "editing" =>
          LET n == Len(result.changes) IN
          /\ \A i, j \in 1..n : i # j => ~Overlap(result.changes[i], result.changes[j])
          /\ \A j \in 1..n : IsRegeneration(store, result.handled[j]) => j = n
          /\ \A m \in UnusedNodes(store, file) \ HandledNodes :
               /\ n > 0
               /\ IsRegeneration(store, result.handled[n])
               /\ After(m, result.handled[n]))
  /\ [][pc = "editing" =>
          \A m \in UnusedNodes(store, file) \ HandledNodes :
            StillThere(store', m) /\ pc' = "scanning"]_vars

\* A batch with a regeneration after another change, and unused candidates
\* left for a later pass.
C10_Witness ==
  /\ pc = "editing"
  /\ Len(result.changes) >= 2
  /\ IsRegeneration(store, result.handled[Len(result.changes)])
  /\ Cardinality(UnusedNodes(store, file) \ HandledNodes) >= 2

\* ------------------------------------------------------------ completeness
\* A candidate of a target file no other file holds an occurrence of, and
\* without the skip marker.
Removable(st, n) == FilesOf(st, n) \subseteq {n.file} /\ ~HasSkipComment(st, n)

RemovableLeft(st) ==
  { n \in UNION { IF st[f].exists THEN Range(Targets(st, f)) ELSE {} :
                  f \in Range(targetFile) } : Removable(st, n) }

\* C2 (completeness) as claimed, in its finite form: a driver that never
\* returns from a scanning pass makes no further step, and a run over the
\* whole target list that made no edit is a fixed point of the repetition;
\* in both states every export of a target file that no other file
\* references and that carries no skip marker has been removed (or its file
\* deleted).
C2_Completeness ==
  /\ pc = "hung" => RemovableLeft(store) = {}
  /\ (pc = "done" /\ previous = "clean") => RemovableLeft(store) = {}

\* ---------------------------------------------------------- deletion policy
\* The file holds no candidate and no wildcard re-export.
Exportless(st, f) == Targets(st, f) = <<>> /\ ~HasWildcard(st, f)

\* C8 (deletion policy) as claimed: at the end of a file's loop the file is
\* deleted exactly when deletion was requested, the file is exportless and
\* the used flag is false; a file is deleted at no other point; with the
\* deletion the driver goes to the next target file; a deleted path is never
\* written again.
C8_DeletionPolicy ==
  /\ [][pc = "stabilized" =>
          (~store'[file].exists <=>
             (deleteUnusedFile /\ Exportless(store, file) /\ ~isUsed))]_vars
  /\ [][\A f \in Files :
          /\ (store[f].exists /\ ~store'[f].exists) =>
               (pc = "stabilized" /\ f = file /\ pc' = "loop" /\ idx' = idx + 1)
          /\ ~store[f].exists => ~store'[f].exists]_vars

\* ----------------------------------------------------------- default export
HasDefaultExport(st, f) ==
  /\ st[f].exists
  /\ \E s \in Range(st[f].stmts) :
       \/ s.kind = "decl" /\ s.exp /\ s.def
       \/ s.kind = "assign" /\ ~s.eq

\* C9 as claimed: the scanning pass over a file that has a default export
\* reports the file used, and no step deletes the file.
C9_DefaultExportUsed ==
  /\ [](pc = "editing" /\ HasDefaultExport(store, file) => result.isUsed)
  /\ [][\A f \in Files : HasDefaultExport(store, f) => store'[f].exists]_vars

\* ----------------------------------------------------- conservative failure
\* One hop of the ancestry: the module `p[1]` named in file `p[2]`.
HopOrigin(st, p) == getFileFromModuleSpecifierText(st, p[1], p[2])

\* The hop fails: the specifier resolves to no file, or the resolved file has
\* no entry in the reference set.
HopFails(st, refs, p) ==
  \/ HopOrigin(st, p) = NoFile
  \/ \A v \in refs : v.file # HopOrigin(st, p)

\* The hops that follow hop p: the forwarding specifier the entry of the
\* resolved file starts with names the next module.
HopNext(st, refs, p) ==
  IF HopFails(st, refs, p) THEN {}
  ELSE { <<ModuleOf(st, r), HopOrigin(st, p)>> :
           r \in { q \in getReexportInFile(st, HopOrigin(st, p)) :
                     \E v \in refs : v.file = HopOrigin(st, p) /\ v.first = q } }

RECURSIVE Hops(_, _, _)
Hops(st, refs, S) ==
  LET T == S \cup UNION { HopNext(st, refs, p) : p \in S }
  IN IF T = S THEN S ELSE Hops(st, refs, T)

FirstHop(st, n) == <<ModuleOf(st, n), n.file>>

\* The hops of forwarding specifier n that fail.
FailedHops(st, n) ==
  LET references == findReferences(st, n)
  IN IF n.k > 0 /\ ModuleOf(st, n) # NoFile /\ references.kind = "refs"
     THEN { p \in Hops(st, references.refs, {FirstHop(st, n)}) :
              HopFails(st, references.refs, p) }
     ELSE {}

\* The forwarding specifiers of the current file whose ancestry is not
\* resolved.
UnresolvedHere == { n \in Range(Targets(store, file)) : FailedHops(store, n) # {} }

\* C11 (conservative failure): a forwarding specifier with a hop of its
\* ancestry that resolves to no file, or to a file without an entry in the
\* reference set, at the first hop or a later one, is not in the unused set,
\* gets no text change, is still in the text after the pass is applied, and
\* the pass and the loop report the file used.
C11_ConservativeFailure ==
  /\ [](pc = "editing" =>
          \A n \in UnresolvedHere :
            /\ n \notin UnusedNodes(store, file)
            /\ n \notin HandledNodes
            /\ result.isUsed)
  /\ [][pc = "editing" =>
          /\ \A n \in UnresolvedHere : StillThere(store', n)
          /\ UnresolvedHere # {} => isUsed']_vars

\* A pass over a file whose forwarding specifier no other file references
\* and whose ancestry fails at the second hop, after the first succeeded.
C11_Witness ==
  /\ pc = "editing"
  /\ \E n \in UnresolvedHere :
       /\ FirstHop(store, n) \notin FailedHops(store, n)
       /\ ~HasSkipComment(store, n)
       /\ \A v \in findReferences(store, n).refs :
            v.file = n.file \/ v.file = HopOrigin(store, FirstHop(store, n))

\* ------------------------------------------------- ancestry walk termination
\* What the walk from forwarding specifier n comes to.
WalkOutcome(st, n) ==
  LET references == findReferences(st, n)
  IN IF references.kind = "refs"
     THEN getAncestorFiles(st, n, references.refs, n.file).kind
     ELSE "null"

\* C12 as claimed: the ancestry walk from every forwarding specifier of the
\* file being scanned ends, with an ancestry set or with null, for cyclic
\* re-export graphs too, so the scanning pass always returns.
C12_WalkTerminates ==
  /\ pc = "scanning" =>
       \A n \in getReexportInFile(store, file) : WalkOutcome(store, n) \in {"set", "null"}
  /\ pc # "hung"

\* ------------------------------------------------------ edit-session protocol
\* The start event of the session event j of the tracker lies in: the last
\* start at or before j (0 when there is none).
SessionStart(j) ==
  LET S == { i \in 1..j : tracker[i].type = "start" }
  IN IF S = {} THEN 0 ELSE CHOOSE i \in S : \A k \in S : k <= i

\* The session of event j is open before j: no end since its start.
OpenBefore(j) ==
  /\ SessionStart(j) > 0
  /\ \A i \in SessionStart(j)..(j - 1) : tracker[i].type # "end"

\* C13 (edit-session protocol) as claimed: the events of a run are sessions
\* one after the other; a session is start(file), the removals of that file,
\* at most one deletion of that file, then end(file); every removal and
\* deletion lies in the open session of its own file, a deletion is followed
\* by the end of its session, and between two files and when the run has
\* returned the last session is closed by end.
C13_EditSessionProtocol ==
  /\ \A j \in 1..Len(tracker) :
       /\ tracker[j].type = "start" => (j = 1 \/ tracker[j - 1].type = "end")
       /\ tracker[j].type # "start" =>
            /\ OpenBefore(j)
            /\ tracker[j].file = tracker[SessionStart(j)].file
       /\ tracker[j].type = "removeExport" =>
            \A i \in SessionStart(j)..j : tracker[i].type # "delete"
       /\ (tracker[j].type = "delete" /\ j < Len(tracker)) =>
            tracker[j + 1].type = "end"
  /\ (pc \in {"loop", "done"} /\ tracker # <<>>) =>
       tracker[Len(tracker)].type = "end"

\* ---------------------------------------------------------- loop termination
RECURSIVE SpecCountFrom(_, _)
SpecCountFrom(stmts, i) ==
  IF i > Len(stmts) THEN 0
  ELSE (IF stmts[i].kind = "clause" THEN Len(stmts[i].specs) ELSE 0)
       + SpecCountFrom(stmts, i + 1)

\* The number of export specifiers in the text of file f.
SpecCount(st, f) == SpecCountFrom(st[f].stmts, 1)

\* The driver is inside the do-while loop of the current file.
InLoop == pc \in {"scanning", "editing"}

\* C14 (loop termination) as claimed: every scanning pass returns; a pass
\* that does not end the loop handles a specifier of a multi-item export
\* clause last, leaves the file with fewer specifiers and is followed by a
\* scanning pass of the same file; a pass that ends the loop leaves it
\* stabilized, and the step after that deletes the file or goes on with it;
\* the steps inside the loop of a file write no other file and keep the
\* driver on that file.
C14_LoopTerminates ==
  /\ [](pc # "hung")
  /\ [][(pc = "editing" /\ ~result.done) =>
          /\ result.handled # <<>>
          /\ IsRegeneration(store, result.handled[Len(result.handled)])
          /\ SpecCount(store', file) < SpecCount(store, file)
          /\ pc' = "scanning"]_vars
  /\ [][(pc = "editing" /\ result.done) => pc' = "stabilized"]_vars
  /\ [][pc = "stabilized" => (~store'[file].exists \/ pc' \in {"codefix", "save"})]_vars
  /\ [][InLoop =>
          /\ idx' = idx
          /\ \A f \in Files \ {file} : store'[f] = store[f]]_vars

====
